---- MODULE Spec2Model ----
(***************************************************************************)
(* SCPapi: the tale routes (src/routes/scptales.js) and the SCP routes     *)
(* (src/routes/scp.js) over the two MongoDB collections "SCPTales" and     *)
(* "SCPs".  A collection is the sequence of its documents in insertion     *)
(* order; findOne / updateOne / deleteOne act on the first document that   *)
(* matches the filter.  The source creates no unique index, so insertOne   *)
(* accepts a document whose tale_id or scp_id is already in use.           *)
(*                                                                         *)
(* Every tale handler is an async function: it runs up to its next         *)
(* `await` of a store call in one step, and other requests may run between *)
(* two of its steps.  reqs[r] is the context of the request in slot r: its *)
(* position (pc), its inputs and its local variables.                      *)
(***************************************************************************)
EXTENDS Integers, Sequences, FiniteSets, TLC

VARIABLES
    tales,    \* collection SCPTales: sequence of tale documents
    scps,     \* collection SCPs: sequence of SCP documents
    reqs,     \* slot -> request context
    nreq,     \* number of requests received so far
    err500,   \* TRUE once some tale request was answered with status 500
    dbConnection,  \* connection.js: let dbConnection
    connecting,    \* the promise of connectToServer(): pending, resolved, rejected
    server         \* the process: down (not listening), listening, exited

vars == <<tales, scps, reqs, nreq, err500, dbConnection, connecting, server>>

\* what startup sets
boot == <<dbConnection, connecting, server>>

\* the value of `let dbConnection;` before its first assignment
Undefined == "undefined"

----------------------------------------------------------------------------
(* Bounds and input alphabets *)

MaxReqs == 3        \* requests received in one run of SpecSeq, SpecCareful
MaxReqsConc == 2    \* requests received in one run of the other specifications
MaxInflight == 2    \* requests in flight at the same time
MaxRefs == 2        \* longest scp_id array with repeated keys

Keys == {"A", "B"}           \* scp_id values
TaleIds == {"t1", "t2"}      \* tale_id values
NewTaleIds == {"t2"}         \* tale_id values a PUT body may carry

Slots == 1..MaxInflight

Range(s) == {s[i] : i \in DOMAIN s}

SeqsUpTo(S, n) == UNION {[1..k -> S] : k \in 0..n}

\* the scp_id arrays a request carries: lists of different keys
RefLists ==
    {s \in SeqsUpTo(Keys, Cardinality(Keys)) :
        \A i, j \in DOMAIN s : i # j => s[i] # s[j]}

----------------------------------------------------------------------------
(* JavaScript array helpers *)

\* Array.prototype.includes
Includes(arr, x) == \E i \in DOMAIN arr : arr[i] = x

\* the filter left out: every element is kept
FilterNothing(arr, other) == arr

\* old.filter(x => !other.includes(x)): keeps order and repetitions
FilterNotIn(arr, other) == SelectSeq(arr, LAMBDA x : ~Includes(other, x))

----------------------------------------------------------------------------
(* Documents.  A tale document holds tale_id, title (standing for title,   *)
(* content, rating, url) and scp_id; scp_id_array is FALSE when the stored *)
(* scp_id is null (the request carried none), and scp_id is then <<>>.     *)

Tale(id, title, isArr, refs) ==
    [tale_id |-> id, title |-> title, scp_id_array |-> isArr, scp_id |-> refs]

SCP(key, title, backrefs) ==
    [scp_id |-> key, title |-> title, scp_tales |-> backrefs]

(* Request bodies: `fields` is Object.keys(req.body); a field that is not  *)
(* in `fields` is undefined and its slot holds a default.                  *)
Body(fields, id, title, refs) ==
    [fields |-> fields, tale_id |-> id, title |-> title, scp_id |-> refs]

NoBody == Body({}, "", "", <<>>)

\* POST /SCPTales bodies: tale_id and title given, scp_id an array or absent
PostBodies ==
    {Body({"tale_id", "title", "scp_id"}, id, "x", refs) :
        id \in TaleIds, refs \in RefLists}
    \cup {Body({"tale_id", "title"}, id, "x", <<>>) : id \in TaleIds}

\* PUT /SCPTales/:tale_id bodies: any subset of the fields, also none
PutBodies ==
    {Body(fs, IF "tale_id" \in fs THEN id ELSE "",
              IF "title" \in fs THEN "y" ELSE "",
              IF "scp_id" \in fs THEN refs ELSE <<>>) :
        fs \in SUBSET {"tale_id", "title", "scp_id"},
        id \in NewTaleIds, refs \in RefLists}

\* scp_id arrays in which a key may occur more than once
DupLists == SeqsUpTo(Keys, MaxRefs)

\* POST /SCPTales bodies whose scp_id array may repeat a key
PostBodiesDup ==
    {Body({"tale_id", "title", "scp_id"}, id, "x", refs) :
        id \in TaleIds, refs \in DupLists}

\* PUT /SCPTales/:tale_id bodies that name scp_id alone, with an array that
\* may repeat a key
PutBodiesDup == {Body({"scp_id"}, "", "", refs) : refs \in DupLists}

\* the body of an SCP request
SCPBody(fields, key, title, backrefs) ==
    [fields |-> fields, scp_id |-> key, title |-> title, scp_tales |-> backrefs]

\* POST /SCPs bodies: scp_id and title (standing for title and description)
\* given or missing
SCPBodies ==
    {SCPBody({"scp_id", "title"}, k, "x", <<>>) : k \in Keys}
    \cup {SCPBody({"title"}, "", "x", <<>>)}

\* POST /SCPs bodies that bring their own scp_tales
SCPBodiesTales ==
    {SCPBody({"scp_id", "title", "scp_tales"}, k, "x", <<"t1">>) : k \in Keys}

\* PUT /SCPs/:scp_id bodies: a new scp_id, a new title, a new title with an
\* scp_tales array
PutSCPBodies ==
    {SCPBody({"scp_id"}, k, "", <<>>) : k \in Keys}
    \cup {SCPBody({"title"}, "", "y", <<>>)}
    \cup {SCPBody({"title", "scp_tales"}, "", "y", <<"t1">>)}

----------------------------------------------------------------------------
(* The document store *)

\* index of the first document of coll whose field holds value (the filter
\* { field: value }), 0 if none
FirstIndex(coll, field, value) ==
    IF \E i \in DOMAIN coll : coll[i][field] = value
    THEN CHOOSE i \in DOMAIN coll :
            /\ coll[i][field] = value
            /\ \A j \in 1..(i - 1) : coll[j][field] # value
    ELSE 0

\* findOne called without the filter: the first document of the collection
FindAny(coll, field, value) == IF coll = <<>> THEN <<>> ELSE <<coll[1]>>

\* collection.findOne({ field: value }): <<doc>> or <<>> (null)
FindOne(coll, field, value) ==
    LET i == FirstIndex(coll, field, value) IN
    IF i = 0 THEN <<>> ELSE <<coll[i]>>

\* collection.insertOne(doc)
InsertOne(coll, doc) == Append(coll, doc)

\* collection.deleteOne({ field: value })
DeleteOne(coll, field, value) ==
    LET i == FirstIndex(coll, field, value) IN
    IF i = 0 THEN coll
    ELSE [j \in 1..(Len(coll) - 1) |-> IF j < i THEN coll[j] ELSE coll[j + 1]]

\* result.matchedCount read in place of result.modifiedCount (the filter
\* matched a document in every call the model passes here)
MatchedCount(before, after) == 1

\* result.modifiedCount of an updateOne that took the collection from
\* `before` to `after`: 0 when no document matched or the matched document
\* already held the values
ModifiedCount(before, after) == IF after = before THEN 0 ELSE 1

\* $addToSet aimed at a field other than scp_tales: scp_tales stays as it is
AddToOtherField(doc, id) == doc

\* $push in place of $addToSet: the id is appended whether present or not
Push(doc, id) == [doc EXCEPT !.scp_tales = Append(@, id)]

\* { $addToSet: { scp_tales: id } }
AddToSet(doc, id) ==
    IF Includes(doc.scp_tales, id) THEN doc
    ELSE [doc EXCEPT !.scp_tales = Append(@, id)]

\* { $pull: { scp_tales: id } }
Pull(doc, id) ==
    [doc EXCEPT !.scp_tales = SelectSeq(@, LAMBDA x : x # id)]

\* the document replaced by the body (replaceOne in place of $set): fields
\* the body does not name are lost
ReplaceFields(doc, body) ==
    Tale(body.tale_id, body.title, "scp_id" \in body.fields, body.scp_id)

\* { $set: updatedFields }
SetFields(doc, body) ==
    [tale_id |-> IF "tale_id" \in body.fields THEN body.tale_id ELSE doc.tale_id,
     title |-> IF "title" \in body.fields THEN body.title ELSE doc.title,
     scp_id_array |-> IF "scp_id" \in body.fields THEN TRUE ELSE doc.scp_id_array,
     scp_id |-> IF "scp_id" \in body.fields THEN body.scp_id ELSE doc.scp_id]

\* updateFields: the fields of the body that the handler's list names;
\* scp_tales is not in the list
UpdateFields(body) ==
    [body EXCEPT !.fields = @ \cap {"scp_id", "title"}]

\* { $set: updateFields } on an SCP document
SetSCPFields(doc, body) ==
    [scp_id |-> IF "scp_id" \in body.fields THEN body.scp_id ELSE doc.scp_id,
     title |-> IF "title" \in body.fields THEN body.title ELSE doc.title,
     scp_tales |-> doc.scp_tales]

\* the update documents the handlers pass to updateOne
AddToSetOf(id) == [op |-> "$addToSet", arg |-> id]
PullOf(id) == [op |-> "$pull", arg |-> id]
SetOf(body) == [op |-> "$set", arg |-> body]
SetSCPOf(updateFields) == [op |-> "$setSCP", arg |-> updateFields]

\* the document after the update
Apply(doc, update) ==
    CASE update.op = "$addToSet" -> AddToSet(doc, update.arg)
      [] update.op = "$pull" -> Pull(doc, update.arg)
      [] update.op = "$set" -> SetFields(doc, update.arg)
      [] update.op = "$setSCP" -> SetSCPFields(doc, update.arg)

\* updateOne called with { upsert: true }: when no document matches, one
\* that carries the filter's value is inserted and updated
UpdateOneUpsert(coll, field, value, update) ==
    LET i == FirstIndex(coll, field, value)
        fresh == IF field = "scp_id" THEN SCP(value, "", <<>>)
                 ELSE Tale(value, "", FALSE, <<>>)
    IN
    IF i = 0 THEN Append(coll, Apply(fresh, update))
    ELSE [coll EXCEPT ![i] = Apply(coll[i], update)]

\* collection.updateOne({ field: value }, update): the first matching
\* document is updated
UpdateOne(coll, field, value, update) ==
    LET i == FirstIndex(coll, field, value) IN
    IF i = 0 THEN coll ELSE [coll EXCEPT ![i] = Apply(coll[i], update)]

----------------------------------------------------------------------------
(* Request contexts *)

Idle ==
    [op |-> "none", pc |-> "idle", tale_id |-> "", scp_id |-> "",
     body |-> NoBody, i |-> 0,
     missingScps |-> <<>>, tale |-> <<>>, removedScps |-> <<>>,
     addedScps |-> <<>>, status |-> 0, msg |-> ""]

InFlight(r) == reqs[r].pc \notin {"idle", "done"}

\* the slot a new request takes: the lowest one not in flight
FreeSlot(r) ==
    /\ ~InFlight(r)
    /\ \A s \in 1..(r - 1) : InFlight(s)

\* res.status(code).send(msg): the handler ends, its locals are dropped
Respond(req, code, msg) ==
    [Idle EXCEPT !.op = req.op, !.pc = "done", !.tale_id = req.tale_id,
                 !.scp_id = req.scp_id, !.status = code, !.msg = msg]

Sent(r, code, msg) ==
    /\ reqs' = [reqs EXCEPT ![r] = Respond(reqs[r], code, msg)]
    /\ err500' = (err500 \/ code = 500)
    /\ UNCHANGED boot

Goes(r, next) ==
    /\ reqs' = [reqs EXCEPT ![r] = next]
    /\ err500' = err500
    /\ UNCHANGED boot

\* a request is received into slot r: fewer than `limit` requests are in
\* flight and fewer than `budget` requests were received so far
Admit(r, limit, budget) ==
    /\ server = "listening"
    /\ nreq < budget
    /\ Cardinality({s \in Slots : InFlight(s)}) < limit
    /\ FreeSlot(r)
    /\ nreq' = nreq + 1
    /\ UNCHANGED boot

----------------------------------------------------------------------------
(* POST /SCPTales *)

\* the list restarted at every turn instead of appended to
PushLastOnly(missingScps, scpExists, scp) ==
    IF scpExists = <<>> THEN <<scp>> ELSE <<>>

\* the test inverted: if (scpExists) missingScps.push(scp)
PushIfFound(missingScps, scpExists, scp) ==
    IF scpExists # <<>> THEN Append(missingScps, scp) ELSE missingScps

\* if (!scpExists) missingScps.push(scp)
PushIfMissing(missingScps, scpExists, scp) ==
    IF scpExists = <<>> THEN Append(missingScps, scp) ELSE missingScps

\* the request arrives; the validation loop is entered only for an array
PostTaleBegin(r, body, limit, budget) ==
    /\ Admit(r, limit, budget)
    /\ reqs' = [reqs EXCEPT ![r] =
            [Idle EXCEPT !.op = "post", !.body = body, !.i = 1,
                !.pc = IF "scp_id" \in body.fields /\ Len(body.scp_id) > 0
                       THEN "validate" ELSE "insert"]]
    /\ UNCHANGED <<tales, scps, err500>>

\* one turn of the loop "1. Check if all SCPs exist", and what follows the
\* last turn; the 400 response lists missingScps
PostTaleValidate(r) ==
    LET req == reqs[r]
        scp == req.body.scp_id[req.i]
        scpExists == FindOne(scps, "scp_id", scp)
        missing == PushIfMissing(req.missingScps, scpExists, scp)
    IN
    /\ req.op = "post" /\ req.pc = "validate"
    /\ IF req.i < Len(req.body.scp_id)
       THEN Goes(r, [req EXCEPT !.i = @ + 1, !.missingScps = missing])
       ELSE IF Len(missing) > 0
            THEN Goes(r, [Respond(req, 400, "SCP(s) not found")
                            EXCEPT !.missingScps = missing])
            ELSE Goes(r, [req EXCEPT !.pc = "insert", !.i = 1,
                                     !.missingScps = missing])
    /\ UNCHANGED <<tales, scps, nreq>>

\* "2. Insert the new tale" and the entry of loop 3: `for (let scp of
\* scp_id)` throws a TypeError when scp_id is undefined
PostTaleInsert(r) ==
    LET req == reqs[r]
        b == req.body
        tale == Tale(b.tale_id, b.title, "scp_id" \in b.fields, b.scp_id)
    IN
    /\ req.op = "post" /\ req.pc = "insert"
    /\ tales' = InsertOne(tales, tale)
    /\ IF "scp_id" \notin b.fields
       THEN Sent(r, 500, "Error adding Tale and updating SCP(s)")
       ELSE IF Len(b.scp_id) = 0
            THEN Sent(r, 201, "Tale added successfully")
            ELSE Goes(r, [req EXCEPT !.pc = "addrefs", !.i = 1])
    /\ UNCHANGED <<scps, nreq>>

\* one turn of the loop "3. Update the related SCP(s)"
PostTaleAddRef(r) ==
    LET req == reqs[r]
        scp == req.body.scp_id[req.i]
    IN
    /\ req.op = "post" /\ req.pc = "addrefs"
    /\ scps' = UpdateOne(scps, "scp_id", scp, AddToSetOf(req.body.tale_id))
    /\ IF req.i < Len(req.body.scp_id)
       THEN Goes(r, [req EXCEPT !.i = @ + 1])
       ELSE Sent(r, 201, "Tale added successfully")
    /\ UNCHANGED <<tales, nreq>>

----------------------------------------------------------------------------
(* DELETE /SCPTales/:tale_id *)

DeleteTaleBegin(r, id, limit, budget) ==
    /\ Admit(r, limit, budget)
    /\ reqs' = [reqs EXCEPT ![r] =
            [Idle EXCEPT !.op = "delete", !.tale_id = id, !.pc = "find"]]
    /\ UNCHANGED <<tales, scps, err500>>

\* "First, find the Tale to check if it exists"
DeleteTaleFind(r) ==
    LET req == reqs[r]
        tale == FindOne(tales, "tale_id", req.tale_id)
    IN
    /\ req.op = "delete" /\ req.pc = "find"
    /\ IF tale = <<>>
       THEN Sent(r, 404, "Tale not found")
       ELSE Goes(r, [req EXCEPT !.pc = "remove", !.tale = tale])
    /\ UNCHANGED <<tales, scps, nreq>>

\* the deleteOne moved behind the $pull loop: this step deletes nothing
DeleteTaleRemoveLate(r) ==
    LET req == reqs[r]
        tale == req.tale[1]
    IN
    /\ req.op = "delete" /\ req.pc = "remove"
    /\ tales' = tales
    /\ IF tale.scp_id_array /\ Len(tale.scp_id) > 0
       THEN Goes(r, [req EXCEPT !.pc = "pull", !.i = 1])
       ELSE Sent(r, 200, "Tale deleted successfully")
    /\ UNCHANGED <<scps, nreq>>

\* "Remove the tale from the SCPTales collection"
DeleteTaleRemove(r) ==
    LET req == reqs[r]
        tale == req.tale[1]
    IN
    /\ req.op = "delete" /\ req.pc = "remove"
    /\ tales' = DeleteOne(tales, "tale_id", req.tale_id)
    /\ IF tale.scp_id_array /\ Len(tale.scp_id) > 0
       THEN Goes(r, [req EXCEPT !.pc = "pull", !.i = 1])
       ELSE Sent(r, 200, "Tale deleted successfully")
    /\ UNCHANGED <<scps, nreq>>

\* one turn of the loop that pulls the tale_id from the related SCPs
DeleteTalePull(r) ==
    LET req == reqs[r]
        scp == req.tale[1].scp_id[req.i]
    IN
    /\ req.op = "delete" /\ req.pc = "pull"
    /\ scps' = UpdateOne(scps, "scp_id", scp, PullOf(req.tale_id))
    /\ IF req.i < Len(req.tale[1].scp_id)
       THEN Goes(r, [req EXCEPT !.i = @ + 1])
       ELSE Sent(r, 200, "Tale deleted successfully")
    /\ UNCHANGED <<tales, nreq>>

----------------------------------------------------------------------------
(* PUT /SCPTales/:tale_id *)

\* the test written as `!updatedFields`: an object is never falsy
NoFieldsFalsy(body) == FALSE

\* Object.keys(updatedFields).length === 0
NoFields(body) == Cardinality(body.fields) = 0

\* the request arrives; an empty body is answered before any store call
PutTaleBegin(r, id, body, limit, budget) ==
    /\ Admit(r, limit, budget)
    /\ LET req == [Idle EXCEPT !.op = "put", !.tale_id = id, !.body = body,
                               !.pc = "find"]
       IN IF NoFields(body)
          THEN reqs' = [reqs EXCEPT ![r] =
                            Respond(req, 400, "No fields provided to update.")]
          ELSE reqs' = [reqs EXCEPT ![r] = req]
    /\ UNCHANGED <<tales, scps, err500>>

\* "Find the existing tale by tale_id"
PutTaleFind(r) ==
    LET req == reqs[r]
        existingTale == FindOne(tales, "tale_id", req.tale_id)
    IN
    /\ req.op = "put" /\ req.pc = "find"
    /\ IF existingTale = <<>>
       THEN Sent(r, 404, "Tale not found")
       ELSE Goes(r, [req EXCEPT !.pc = "set", !.tale = existingTale])
    /\ UNCHANGED <<tales, scps, nreq>>

\* the two loops in the other order: the addedScps loop is entered first
PutTaleSetAddFirst(r) ==
    LET req == reqs[r]
        existingTale == req.tale[1]
        updated == UpdateOne(tales, "tale_id", req.tale_id, SetOf(req.body))
        modifiedCount == ModifiedCount(tales, updated)
        removedScps == FilterNotIn(existingTale.scp_id, req.body.scp_id)
        addedScps == FilterNotIn(req.body.scp_id, existingTale.scp_id)
    IN
    /\ req.op = "put" /\ req.pc = "set"
    /\ tales' = updated
    /\ IF modifiedCount = 0
       THEN Sent(r, 400, "Tale was not updated.")
       ELSE IF "scp_id" \notin req.body.fields
       THEN Sent(r, 200, "Tale updated successfully")
       ELSE IF ~existingTale.scp_id_array
       THEN Sent(r, 500, "Error updating Tale!")
       ELSE IF Len(addedScps) > 0
       THEN Goes(r, [req EXCEPT !.pc = "add", !.i = 1,
                         !.removedScps = removedScps, !.addedScps = addedScps])
       ELSE IF Len(removedScps) > 0
       THEN Goes(r, [req EXCEPT !.pc = "pull", !.i = 1,
                         !.removedScps = removedScps, !.addedScps = addedScps])
       ELSE Sent(r, 200, "Tale updated successfully")
    /\ UNCHANGED <<scps, nreq>>

\* "Update the tale with the provided fields", the modifiedCount test and
\* the two filter() calls
PutTaleSet(r) ==
    LET req == reqs[r]
        existingTale == req.tale[1]
        updated == UpdateOne(tales, "tale_id", req.tale_id, SetOf(req.body))
        modifiedCount == ModifiedCount(tales, updated)
        removedScps == FilterNotIn(existingTale.scp_id, req.body.scp_id)
        addedScps == FilterNotIn(req.body.scp_id, existingTale.scp_id)
    IN
    /\ req.op = "put" /\ req.pc = "set"
    /\ tales' = updated
    /\ IF modifiedCount = 0
       THEN Sent(r, 400, "Tale was not updated.")
       ELSE IF "scp_id" \notin req.body.fields
       THEN Sent(r, 200, "Tale updated successfully")
       ELSE IF ~existingTale.scp_id_array
       THEN Sent(r, 500, "Error updating Tale!")
       ELSE IF Len(removedScps) > 0
       THEN Goes(r, [req EXCEPT !.pc = "pull", !.i = 1,
                         !.removedScps = removedScps, !.addedScps = addedScps])
       ELSE IF Len(addedScps) > 0
       THEN Goes(r, [req EXCEPT !.pc = "add", !.i = 1,
                         !.removedScps = removedScps, !.addedScps = addedScps])
       ELSE Sent(r, 200, "Tale updated successfully")
    /\ UNCHANGED <<scps, nreq>>

\* one turn of `for (let scp of removedScps)`
PutTalePull(r) ==
    LET req == reqs[r]
        scp == req.removedScps[req.i]
    IN
    /\ req.op = "put" /\ req.pc = "pull"
    /\ scps' = UpdateOne(scps, "scp_id", scp, PullOf(req.tale_id))
    /\ IF req.i < Len(req.removedScps)
       THEN Goes(r, [req EXCEPT !.i = @ + 1])
       ELSE IF Len(req.addedScps) > 0
       THEN Goes(r, [req EXCEPT !.pc = "add", !.i = 1])
       ELSE Sent(r, 200, "Tale updated successfully")
    /\ UNCHANGED <<tales, nreq>>

\* one turn of `for (let scp of addedScps)`
PutTaleAdd(r) ==
    LET req == reqs[r]
        scp == req.addedScps[req.i]
    IN
    /\ req.op = "put" /\ req.pc = "add"
    /\ scps' = UpdateOne(scps, "scp_id", scp, AddToSetOf(req.tale_id))
    /\ IF req.i < Len(req.addedScps)
       THEN Goes(r, [req EXCEPT !.i = @ + 1])
       ELSE Sent(r, 200, "Tale updated successfully")
    /\ UNCHANGED <<tales, nreq>>

----------------------------------------------------------------------------
(* A store call of a tale handler rejects: the catch block answers 500 *)

\* a catch block that logs the error and sends nothing
StoreFailsNoResponse(r) ==
    /\ InFlight(r) /\ reqs[r].pc # "caught"
    /\ Goes(r, [reqs[r] EXCEPT !.pc = "caught"])
    /\ UNCHANGED <<tales, scps, nreq>>

\* a catch block that undoes the insert of a POST whose $addToSet failed
StoreFailsRollback(r) ==
    /\ InFlight(r)
    /\ Sent(r, 500, "store call failed")
    /\ tales' = IF reqs[r].op = "post" /\ reqs[r].pc = "addrefs"
                THEN DeleteOne(tales, "tale_id", reqs[r].body.tale_id)
                ELSE tales
    /\ UNCHANGED <<scps, nreq>>

StoreFails(r) ==
    /\ InFlight(r)
    /\ Sent(r, 500, "store call failed")
    /\ UNCHANGED <<tales, scps, nreq>>

----------------------------------------------------------------------------
(* The SCP routes.  Each issues one store call, so the handler is one step: *)
(* the request arrives, the call is made and the response is sent.          *)

\* POST /SCPs: the body is inserted as it is; without scp_tales in the body
\* the array is created by the first $addToSet
PostSCP(r, body, limit, budget) ==
    LET req == [Idle EXCEPT !.op = "postScp", !.scp_id = body.scp_id] IN
    /\ Admit(r, limit, budget)
    /\ IF "scp_id" \notin body.fields \/ "title" \notin body.fields
       THEN /\ scps' = scps
            /\ reqs' = [reqs EXCEPT ![r] =
                            Respond(req, 400, "Missing required fields")]
       ELSE /\ scps' = InsertOne(scps,
                        SCP(body.scp_id, body.title,
                            IF "scp_tales" \in body.fields
                            THEN body.scp_tales ELSE <<>>))
            /\ reqs' = [reqs EXCEPT ![r] =
                            Respond(req, 201, "SCP added successfully")]
    /\ UNCHANGED <<tales, err500>>

\* result.deletedCount of a deleteOne that took the collection from `before`
\* to `after`
DeletedCount(before, after) == Len(before) - Len(after)

\* a handler that, after the deleteOne, also takes the key out of the scp_id
\* array of every tale
DeleteSCPCascade(r, scp_id, limit, budget) ==
    LET req == [Idle EXCEPT !.op = "deleteScp", !.scp_id = scp_id]
        deleted == DeleteOne(scps, "scp_id", scp_id)
    IN
    /\ Admit(r, limit, budget)
    /\ scps' = deleted
    /\ tales' = [i \in DOMAIN tales |->
                    [tales[i] EXCEPT !.scp_id =
                        SelectSeq(@, LAMBDA k : k # scp_id)]]
    /\ reqs' = [reqs EXCEPT ![r] =
                    IF DeletedCount(scps, deleted) = 0
                    THEN Respond(req, 404, "SCP not found")
                    ELSE Respond(req, 200, "SCP deleted successfully")]
    /\ UNCHANGED err500

\* DELETE /SCPs/:scp_id
DeleteSCP(r, scp_id, limit, budget) ==
    LET req == [Idle EXCEPT !.op = "deleteScp", !.scp_id = scp_id]
        deleted == DeleteOne(scps, "scp_id", scp_id)
    IN
    /\ Admit(r, limit, budget)
    /\ scps' = deleted
    /\ reqs' = [reqs EXCEPT ![r] =
                    IF DeletedCount(scps, deleted) = 0
                    THEN Respond(req, 404, "SCP not found")
                    ELSE Respond(req, 200, "SCP deleted successfully")]
    /\ UNCHANGED <<tales, err500>>

\* PUT /SCPs/:scp_id arrives
PutSCPBegin(r, scp_id, body, limit, budget) ==
    /\ Admit(r, limit, budget)
    /\ reqs' = [reqs EXCEPT ![r] =
            [Idle EXCEPT !.op = "putScp", !.pc = "scpfind",
                         !.scp_id = scp_id, !.body = body]]
    /\ UNCHANGED <<tales, scps, err500>>

\* findOne({ scp_id }) and the 404
PutSCPFind(r) ==
    LET req == reqs[r]
        existingSCP == FindOne(scps, "scp_id", req.scp_id)
    IN
    /\ req.op = "putScp" /\ req.pc = "scpfind"
    /\ IF existingSCP = <<>>
       THEN Sent(r, 404, "SCP not found")
       ELSE Goes(r, [req EXCEPT !.pc = "scpset"])
    /\ UNCHANGED <<tales, scps, nreq>>

\* updateOne({ scp_id }, { $set: updateFields }) and the modifiedCount test
PutSCPSet(r) ==
    LET req == reqs[r]
        updated == UpdateOne(scps, "scp_id", req.scp_id,
                             SetSCPOf(UpdateFields(req.body)))
    IN
    /\ req.op = "putScp" /\ req.pc = "scpset"
    /\ scps' = updated
    /\ IF ModifiedCount(scps, updated) = 0
       THEN Sent(r, 400, "SCP was not updated")
       ELSE Sent(r, 200, "SCP updated successfully")
    /\ UNCHANGED <<tales, nreq>>

----------------------------------------------------------------------------
(* Specifications *)

\* The collections outlive the server.  A run starts with no tale and with
\* the SCPs that earlier POST /SCPs requests left: none, or A and B.  In Init
\* the server has connected and listens.
Catalogues ==
    {<<>>, <<SCP("A", "x", <<>>), SCP("B", "x", <<>>)>>}

Init ==
    /\ tales = <<>>
    /\ scps \in Catalogues
    /\ reqs = [r \in Slots |-> Idle]
    /\ nreq = 0
    /\ err500 = FALSE
    /\ dbConnection = "scp"
    /\ connecting = "resolved"
    /\ server = "listening"

\* a request arrives
Arrive(limit, budget) ==
    \/ \E r \in Slots, body \in PostBodies :
            PostTaleBegin(r, body, limit, budget)
    \/ \E r \in Slots, id \in TaleIds : DeleteTaleBegin(r, id, limit, budget)
    \/ \E r \in Slots, id \in TaleIds, body \in PutBodies :
            PutTaleBegin(r, id, body, limit, budget)
    \/ \E r \in Slots, body \in SCPBodies : PostSCP(r, body, limit, budget)
    \/ \E r \in Slots, k \in Keys : DeleteSCP(r, k, limit, budget)

\* a request in flight runs up to its next store call
Step ==
    \E r \in Slots :
        \/ PostTaleValidate(r)
        \/ PostTaleInsert(r)
        \/ PostTaleAddRef(r)
        \/ DeleteTaleFind(r)
        \/ DeleteTaleRemove(r)
        \/ DeleteTalePull(r)
        \/ PutTaleFind(r)
        \/ PutTaleSet(r)
        \/ PutTalePull(r)
        \/ PutTaleAdd(r)

Fail == \E r \in Slots : StoreFails(r)

\* requests interleave at store calls, store calls may fail
Next == Arrive(MaxInflight, MaxReqsConc) \/ Step \/ Fail

Spec == Init /\ [][Next]_vars

\* requests run one at a time and no store call fails
NextSeq == Arrive(1, MaxReqs) \/ Step

SpecSeq == Init /\ [][NextSeq]_vars

\* requests run one at a time, store calls may fail
NextSeqFail == Arrive(1, MaxReqsConc) \/ Step \/ Fail

SpecSeqFail == Init /\ [][NextSeqFail]_vars

\* a request arrives, PUT /SCPs/:scp_id and POST /SCPs with scp_tales in the
\* body among them
ArriveEntity(limit, budget) ==
    \/ Arrive(limit, budget)
    \/ \E r \in Slots, body \in SCPBodiesTales :
            PostSCP(r, body, limit, budget)
    \/ \E r \in Slots, k \in Keys, body \in PutSCPBodies :
            PutSCPBegin(r, k, body, limit, budget)

\* a PUT /SCPs/:scp_id in flight runs up to its next store call
StepSCP == \E r \in Slots : PutSCPFind(r) \/ PutSCPSet(r)

\* requests of every route run one at a time and no store call fails
NextEntity == ArriveEntity(1, MaxReqsConc) \/ Step \/ StepSCP

SpecEntity == Init /\ [][NextEntity]_vars

\* the process has just started: nothing is connected, nobody listens
InitBoot ==
    /\ tales = <<>>
    /\ scps \in Catalogues
    /\ reqs = [r \in Slots |-> Idle]
    /\ nreq = 0
    /\ err500 = FALSE
    /\ dbConnection = Undefined
    /\ connecting = "pending"
    /\ server = "down"

\* connectToServer: client.connect() resolves, dbConnection is assigned
ConnectSucceeds ==
    /\ connecting = "pending" /\ server # "exited"
    /\ dbConnection' = "scp"
    /\ connecting' = "resolved"
    /\ UNCHANGED <<tales, scps, reqs, nreq, err500, server>>

\* connectToServer: client.connect() rejects, the error is thrown again
ConnectFails ==
    /\ connecting = "pending" /\ server # "exited"
    /\ connecting' = "rejected"
    /\ UNCHANGED <<tales, scps, reqs, nreq, err500, dbConnection, server>>

\* app.listen called at once, not in the .then of connectToServer()
ListenAtOnce ==
    /\ server = "down"
    /\ server' = "listening"
    /\ UNCHANGED <<tales, scps, reqs, nreq, err500, dbConnection, connecting>>

\* .then(() => app.listen(PORT))
Listen ==
    /\ connecting = "resolved" /\ server = "down"
    /\ server' = "listening"
    /\ UNCHANGED <<tales, scps, reqs, nreq, err500, dbConnection, connecting>>

\* .catch(err => process.exit(1))
Exit ==
    /\ connecting = "rejected" /\ server # "exited"
    /\ server' = "exited"
    /\ UNCHANGED <<tales, scps, reqs, nreq, err500, dbConnection, connecting>>

\* getDb()
GetDb == dbConnection

\* a request arrives at a listening server; every handler begins with
\* getDb() and answers 500 when the handle is undefined
ArriveBoot(limit, budget) ==
    IF GetDb = Undefined
    THEN \E r \in Slots :
            /\ Admit(r, limit, budget)
            /\ reqs' = [reqs EXCEPT ![r] =
                    Respond([Idle EXCEPT !.op = "any"], 500,
                            "Database connection error")]
            /\ err500' = TRUE
            /\ UNCHANGED <<tales, scps>>
    ELSE ArriveEntity(limit, budget)

\* the process from its start: requests of every route, one at a time
NextBoot ==
    \/ ConnectSucceeds
    \/ ConnectFails
    \/ Listen
    \/ Exit
    \/ ArriveBoot(1, MaxReqsConc)
    \/ Step
    \/ StepSCP

SpecBoot == InitBoot /\ [][NextBoot]_vars

\* requests of every route run one at a time, store calls may fail
NextLive == ArriveEntity(1, MaxReqsConc) \/ Step \/ StepSCP \/ Fail

\* the store call the request in slot r awaits returns or fails
StoreCallEnds(r) ==
    \/ PostTaleValidate(r)
    \/ PostTaleInsert(r)
    \/ PostTaleAddRef(r)
    \/ DeleteTaleFind(r)
    \/ DeleteTaleRemove(r)
    \/ DeleteTalePull(r)
    \/ PutTaleFind(r)
    \/ PutTaleSet(r)
    \/ PutTalePull(r)
    \/ PutTaleAdd(r)
    \/ PutSCPFind(r)
    \/ PutSCPSet(r)
    \/ StoreFails(r)

\* the store call that is awaited (requests run one at a time, so there is
\* at most one) eventually returns or fails
SpecLive ==
    /\ Init /\ [][NextLive]_vars
    /\ WF_vars(\E r \in Slots : StoreCallEnds(r))

\* a request arrives whose scp_id array may repeat a key
ArriveDup(limit, budget) ==
    \/ \E r \in Slots, body \in PostBodiesDup :
            PostTaleBegin(r, body, limit, budget)
    \/ \E r \in Slots, id \in TaleIds : DeleteTaleBegin(r, id, limit, budget)
    \/ \E r \in Slots, id \in TaleIds, body \in PutBodiesDup :
            PutTaleBegin(r, id, body, limit, budget)
    \/ \E r \in Slots, body \in SCPBodies : PostSCP(r, body, limit, budget)
    \/ \E r \in Slots, k \in Keys : DeleteSCP(r, k, limit, budget)

\* requests run one at a time, scp_id arrays may repeat a key
NextDup == ArriveDup(1, MaxReqsConc) \/ Step

SpecDup == Init /\ [][NextDup]_vars

\* some tale document has tale_id id, or a POST in flight is about to
\* insert one
TaleIdInUse(id) ==
    \/ \E i \in DOMAIN tales : tales[i].tale_id = id
    \/ \E s \in Slots : /\ reqs[s].op = "post" /\ InFlight(s)
                        /\ reqs[s].body.tale_id = id

\* the requests of a careful client: a new tale takes an unused tale_id and
\* carries an scp_id array, an update renames nothing and names only keys
\* that exist, a new SCP takes an unused scp_id and brings no scp_tales, no
\* SCP is deleted or updated
CarefulArrive(limit, budget) ==
    \/ \E r \in Slots, body \in PostBodies :
            /\ "scp_id" \in body.fields
            /\ ~TaleIdInUse(body.tale_id)
            /\ PostTaleBegin(r, body, limit, budget)
    \/ \E r \in Slots, id \in TaleIds : DeleteTaleBegin(r, id, limit, budget)
    \/ \E r \in Slots, id \in TaleIds, body \in PutBodies :
            /\ "tale_id" \notin body.fields
            /\ \A k \in Range(body.scp_id) :
                    \E j \in DOMAIN scps : scps[j].scp_id = k
            /\ PutTaleBegin(r, id, body, limit, budget)
    \/ \E r \in Slots, body \in SCPBodies :
            /\ \A j \in DOMAIN scps : scps[j].scp_id # body.scp_id
            /\ PostSCP(r, body, limit, budget)

\* a careful client whose requests interleave at store calls; no store
\* call fails
NextRace == CarefulArrive(MaxInflight, MaxReqsConc) \/ Step

SpecRace == Init /\ [][NextRace]_vars

\* a careful client whose requests run one at a time
NextCareful == CarefulArrive(1, MaxReqs) \/ Step

SpecCareful == Init /\ [][NextCareful]_vars

----------------------------------------------------------------------------
(* Vocabulary of the properties *)

\* no request is in flight
Quiet == \A r \in Slots : ~InFlight(r)

\* the request in slot r takes this step
Acts(r) == reqs'[r] # reqs[r]

\* the request in slot r sends its response in this step
Completes(r) == InFlight(r) /\ reqs'[r].pc = "done"

\* some SCP document has scp_id k
HasSCP(k) == \E j \in DOMAIN scps : scps[j].scp_id = k

\* some tale document has tale_id id
HasTale(id) == \E i \in DOMAIN tales : tales[i].tale_id = id

\* tale document n lists key k in its scp_id
Refers(n, k) == n.scp_id_array /\ Includes(n.scp_id, k)

\* for every live tale N and SCP E: N.tale_id is in E.scp_tales exactly when
\* E.scp_id occurs in N.scp_id
LiveInverse ==
    \A i \in DOMAIN tales, j \in DOMAIN scps :
        Includes(scps[j].scp_tales, tales[i].tale_id)
            <=> Refers(tales[i], scps[j].scp_id)

\* the body names an scp_id array with a key that no SCP document has
MissingKey(body) ==
    "scp_id" \in body.fields /\ \E k \in Range(body.scp_id) : ~HasSCP(k)

----------------------------------------------------------------------------
(* C1: requests run one at a time (SpecSeq).  Whenever a tale request sends *)
(* its response and no request so far was answered with status 500, the     *)
(* back-reference sets are the exact inverse of the forward-reference lists *)
(* of the live tales.                                                       *)
C1_InversePreserved ==
    [][((\E r \in Slots : Completes(r)) /\ ~err500') => LiveInverse']_vars

----------------------------------------------------------------------------
(* C2: a POST /SCPTales whose scp_id array holds a key that no SCP has      *)
(* writes nothing in any of its steps (no tale is inserted, no SCP          *)
(* document changes) and, when it answers, answers 400 "SCP(s) not found".  *)
C2_CreateFailsClosed ==
    [][\A r \in Slots :
        (reqs[r].op = "post" /\ InFlight(r) /\ MissingKey(reqs[r].body)
            /\ Acts(r))
        => /\ tales' = tales
           /\ scps' = scps
           /\ reqs'[r].pc \in {"validate", "done"}
           /\ reqs'[r].pc = "done"
                => reqs'[r].status = 400 /\ reqs'[r].msg = "SCP(s) not found"
      ]_vars

\* the first key of the array was found, the second one is missing, and the
\* request is about to look the second one up
C2_Witness ==
    \E r \in Slots :
        /\ reqs[r].op = "post" /\ reqs[r].pc = "validate" /\ reqs[r].i = 2
        /\ reqs[r].missingScps = <<>>
        /\ HasSCP(reqs[r].body.scp_id[1])
        /\ ~HasSCP(reqs[r].body.scp_id[2])

----------------------------------------------------------------------------
(* C3: a PUT /SCPTales/:tale_id on an existing tale whose body names an     *)
(* scp_id array with a key that no SCP has writes nothing in any of its     *)
(* steps and, when it answers, answers 400 "SCP(s) not found".              *)
C3_UpdateValidates ==
    [][\A r \in Slots :
        (reqs[r].op = "put" /\ InFlight(r) /\ MissingKey(reqs[r].body)
            /\ HasTale(reqs[r].tale_id) /\ Acts(r))
        => /\ tales' = tales
           /\ scps' = scps
           /\ reqs'[r].pc = "done"
                => reqs'[r].status = 400 /\ reqs'[r].msg = "SCP(s) not found"
      ]_vars

----------------------------------------------------------------------------
(* C4: the requests of a careful client interleave at store calls and no    *)
(* store call fails (SpecRace).  Whenever the last request in flight sends  *)
(* its response and no request so far was answered with status 500, the     *)
(* back-reference sets are the exact inverse of the forward-reference lists *)
(* of the live tales.                                                       *)
C4_EventuallyInverse ==
    [][((\E r \in Slots : Completes(r)) /\ Quiet' /\ ~err500')
        => LiveInverse']_vars

----------------------------------------------------------------------------
\* the SCP document a lookup by key k returns holds id in scp_tales
FirstHolds(coll, k, id) ==
    \E j \in DOMAIN coll :
        /\ coll[j].scp_id = k
        /\ \A h \in 1..(j - 1) : coll[h].scp_id # k
        /\ Includes(coll[j].scp_tales, id)

----------------------------------------------------------------------------
(* C6: when a DELETE /SCPTales/:tale_id answers 200, the tale_id is in the  *)
(* scp_tales of no SCP document whose key the deleted tale listed, and a    *)
(* lookup of the tale_id in SCPTales finds nothing.                         *)
C6_DeleteCleanup ==
    [][\A r \in Slots :
        (reqs[r].op = "delete" /\ Completes(r) /\ reqs'[r].status = 200)
        => /\ \A j \in DOMAIN scps' :
                Refers(reqs[r].tale[1], scps'[j].scp_id)
                    => ~Includes(scps'[j].scp_tales, reqs[r].tale_id)
           /\ \A i \in DOMAIN tales' : tales'[i].tale_id # reqs[r].tale_id
      ]_vars

----------------------------------------------------------------------------
----------------------------------------------------------------------------
(* C8: no two SCP documents share an scp_id and no two tale documents share *)
(* a tale_id.                                                               *)
C8_UniqueIdentifiers ==
    /\ \A i, j \in DOMAIN scps : i # j => scps[i].scp_id # scps[j].scp_id
    /\ \A i, j \in DOMAIN tales : i # j => tales[i].tale_id # tales[j].tale_id

----------------------------------------------------------------------------
(* C9 as stated: every PUT /SCPTales/:tale_id ends in success, NotFound,    *)
(* NoFieldsProvided, MissingReferences or an error (500); and when the tale *)
(* was found and every key the body names exists, the write of the body is  *)
(* followed by the reconciliation and the answer 200.                       *)
UpdateOutcomes ==
    {"Tale updated successfully", "Tale not found",
     "No fields provided to update.", "SCP(s) not found",
     "Error updating Tale!", "store call failed"}

----------------------------------------------------------------------------
(* C10: a PUT /SCPTales/:tale_id whose body has no fields is answered on    *)
(* arrival, before any store call, with 400 "No fields provided to          *)
(* update."; both collections are unchanged.                                *)
C10_EmptyPatchRejected ==
    [][\A r \in Slots :
        (~InFlight(r) /\ Acts(r) /\ reqs'[r].op = "put"
            /\ reqs'[r].body.fields = {})
        => /\ reqs'[r].pc = "done"
           /\ reqs'[r].status = 400
           /\ reqs'[r].msg = "No fields provided to update."
           /\ tales' = tales
           /\ scps' = scps
      ]_vars

\* an empty body was rejected for a tale_id that a tale document has
C10_Witness ==
    \E r \in Slots :
        /\ reqs[r].op = "put" /\ reqs[r].pc = "done"
        /\ reqs[r].msg = "No fields provided to update."
        /\ HasTale(reqs[r].tale_id)

----------------------------------------------------------------------------
(* C11: a DELETE or a PUT (with a non-empty body) on /SCPTales/:tale_id     *)
(* whose tale_id no tale document carries changes neither collection when   *)
(* it arrives, and its lookup answers 404 "Tale not found" and changes      *)
(* neither collection.                                                      *)
C11_NotFoundNoSideEffects ==
    [][\A r \in Slots :
        /\ (~InFlight(r) /\ Acts(r) /\ reqs'[r].op \in {"delete", "put"})
            => tales' = tales /\ scps' = scps
        /\ (reqs[r].op \in {"delete", "put"} /\ reqs[r].pc = "find"
                /\ ~HasTale(reqs[r].tale_id) /\ Acts(r))
            => /\ reqs'[r].pc = "done"
               /\ reqs'[r].status = 404
               /\ reqs'[r].msg = "Tale not found"
               /\ tales' = tales
               /\ scps' = scps
      ]_vars

\* a PUT was answered 404 while another tale exists and an SCP holds its
\* tale_id
C11_Witness ==
    \E r \in Slots :
        /\ reqs[r].op = "put" /\ reqs[r].pc = "done" /\ reqs[r].status = 404
        /\ ~HasTale(reqs[r].tale_id)
        /\ \E i \in DOMAIN tales, j \in DOMAIN scps :
                Includes(scps[j].scp_tales, tales[i].tale_id)

----------------------------------------------------------------------------
\* a store call of the request in slot r fails in this step
FailsNow(r) ==
    InFlight(r) /\ reqs'[r].pc = "done" /\ reqs'[r].msg = "store call failed"

(* C12: requests run one at a time and store calls may fail (SpecSeqFail).  *)
(* The step in which a store call of a tale request fails answers 500 and   *)
(* leaves both collections as they are; a POST whose $addToSet fails leaves *)
(* the inserted tale document in SCPTales; a request that has answered      *)
(* takes no further step, and while no request is in flight the collections *)
(* change only when a new request arrives.                                  *)
C12_AbortWithoutRollback ==
    [][/\ \A r \in Slots :
            /\ FailsNow(r)
                => /\ reqs'[r].status = 500
                   /\ tales' = tales
                   /\ scps' = scps
            /\ (FailsNow(r) /\ reqs[r].op = "post" /\ reqs[r].pc = "addrefs")
                => \E i \in DOMAIN tales' :
                        tales'[i] = Tale(reqs[r].body.tale_id, reqs[r].body.title,
                                         TRUE, reqs[r].body.scp_id)
            /\ (reqs[r].pc = "done" /\ Acts(r)) => nreq' = nreq + 1
       /\ (Quiet /\ (tales' # tales \/ scps' # scps)) => nreq' = nreq + 1
      ]_vars

\* a POST naming two keys failed after its first $addToSet: the tale is
\* stored, the first SCP holds its tale_id, the second one does not
C12_Witness ==
    \E r \in Slots :
        /\ reqs[r].op = "post" /\ reqs[r].pc = "done"
        /\ reqs[r].msg = "store call failed"
        /\ \E i \in DOMAIN tales :
            /\ Len(tales[i].scp_id) = 2
            /\ FirstHolds(scps, tales[i].scp_id[1], tales[i].tale_id)
            /\ HasSCP(tales[i].scp_id[2])
            /\ ~FirstHolds(scps, tales[i].scp_id[2], tales[i].tale_id)

----------------------------------------------------------------------------
(* C13: a DELETE /SCPs/:scp_id changes no tale document; when an SCP        *)
(* document has that scp_id, also one that tales list, the request answers  *)
(* 200 and one document with that scp_id is gone, every other SCP document  *)
(* stays.                                                                   *)
C13_EntityDeleteNoCascade ==
    [][\A r \in Slots :
        (~InFlight(r) /\ Acts(r) /\ reqs'[r].op = "deleteScp")
        => LET k == reqs'[r].scp_id IN
           /\ tales' = tales
           /\ HasSCP(k)
                => /\ reqs'[r].status = 200
                   /\ Len(scps') = Len(scps) - 1
                   /\ Cardinality({j \in DOMAIN scps' : scps'[j].scp_id = k})
                        = Cardinality({j \in DOMAIN scps : scps[j].scp_id = k}) - 1
                   /\ \A j \in DOMAIN scps :
                        scps[j].scp_id # k
                            => \E h \in DOMAIN scps' : scps'[h] = scps[j]
      ]_vars

\* an SCP was deleted while a tale lists its key: the tale still lists the
\* key and no SCP document has it
C13_Witness ==
    \E r \in Slots :
        /\ reqs[r].op = "deleteScp" /\ reqs[r].pc = "done"
        /\ reqs[r].status = 200
        /\ ~HasSCP(reqs[r].scp_id)
        /\ \E i \in DOMAIN tales : Refers(tales[i], reqs[r].scp_id)

----------------------------------------------------------------------------
(* C14: the step of a PUT /SCPTales/:tale_id that writes the body changes   *)
(* one tale document, the one found under the tale_id: each field the body  *)
(* names takes the body's value, each field it does not name keeps its      *)
(* value, and every other tale document stays; no other step of the         *)
(* request changes a tale document.                                         *)
C14_MergePatch ==
    [][\A r \in Slots :
        (reqs[r].op = "put" /\ InFlight(r) /\ Acts(r))
        => IF reqs[r].pc # "set"
           THEN tales' = tales
           ELSE LET b == reqs[r].body
                    i == CHOOSE h \in DOMAIN tales :
                            /\ tales[h].tale_id = reqs[r].tale_id
                            /\ \A g \in 1..(h - 1) :
                                    tales[g].tale_id # reqs[r].tale_id
                IN
                /\ Len(tales') = Len(tales)
                /\ \A h \in DOMAIN tales : h # i => tales'[h] = tales[h]
                /\ \A f \in {"tale_id", "title", "scp_id"} :
                        tales'[i][f] = IF f \in b.fields THEN b[f]
                                       ELSE tales[i][f]
                /\ tales'[i].scp_id_array
                        = ("scp_id" \in b.fields \/ tales[i].scp_id_array)
      ]_vars

\* a PUT that named only the title answered 200: the tale carries the new
\* title and still lists its key, next to a second tale
C14_Witness ==
    \E r \in Slots :
        /\ reqs[r].op = "put" /\ reqs[r].pc = "done" /\ reqs[r].status = 200
        /\ \E i \in DOMAIN tales :
            /\ tales[i].tale_id = reqs[r].tale_id
            /\ tales[i].title = "y"
            /\ Len(tales[i].scp_id) > 0
        /\ Len(tales) = 2

----------------------------------------------------------------------------
\* number of times id occurs in the array arr
Occurrences(arr, id) == Cardinality({x \in DOMAIN arr : arr[x] = id})

\* the request in slot r is at a turn of a loop that adds its tale_id to the
\* SCP of key k
AddsTo(r, k) ==
    \/ /\ reqs[r].op = "post" /\ reqs[r].pc = "addrefs"
       /\ reqs[r].body.scp_id[reqs[r].i] = k
    \/ /\ reqs[r].op = "put" /\ reqs[r].pc = "add"
       /\ reqs[r].addedScps[reqs[r].i] = k

\* the tale_id that the request in slot r adds and pulls
WrittenId(r) ==
    IF reqs[r].op = "post" THEN reqs[r].body.tale_id ELSE reqs[r].tale_id

(* C15: scp_id arrays may repeat a key (SpecDup).  After a turn of an add    *)
(* loop (POST /SCPTales, PUT /SCPTales/:tale_id) for key k, the SCP found   *)
(* under k holds the tale_id exactly once; a turn for an SCP that already   *)
(* holds the tale_id changes nothing; and no scp_tales ever holds an        *)
(* identifier twice.                                                        *)
C15_IdempotentAdd ==
    [][/\ \A r \in Slots, k \in Keys :
            (AddsTo(r, k) /\ Acts(r) /\ HasSCP(k))
            => /\ \E j \in DOMAIN scps' :
                    /\ scps'[j].scp_id = k
                    /\ \A h \in 1..(j - 1) : scps'[h].scp_id # k
                    /\ Occurrences(scps'[j].scp_tales, WrittenId(r)) = 1
               /\ FirstHolds(scps, k, WrittenId(r)) => scps' = scps
       /\ \A j \in DOMAIN scps', id \in TaleIds :
            Occurrences(scps'[j].scp_tales, id) <= 1
      ]_vars

\* a POST whose scp_id array is [k, k] is about to add its tale_id to the
\* SCP of k a second time
C15_Witness ==
    \E r \in Slots :
        /\ reqs[r].op = "post" /\ reqs[r].pc = "addrefs" /\ reqs[r].i = 2
        /\ reqs[r].body.scp_id[1] = reqs[r].body.scp_id[2]
        /\ FirstHolds(scps, reqs[r].body.scp_id[2], reqs[r].body.tale_id)

----------------------------------------------------------------------------
\* the request in slot r is at a turn of a loop that pulls its tale_id from
\* the SCP of key k
PullsFrom(r, k) ==
    \/ /\ reqs[r].op = "delete" /\ reqs[r].pc = "pull"
       /\ reqs[r].tale[1].scp_id[reqs[r].i] = k
    \/ /\ reqs[r].op = "put" /\ reqs[r].pc = "pull"
       /\ reqs[r].removedScps[reqs[r].i] = k

(* C16: a turn of a pull loop (DELETE and PUT /SCPTales/:tale_id) for a key *)
(* whose SCP does not hold the tale_id, or that no SCP document has,        *)
(* changes neither collection, and the request goes on: to its next turn,   *)
(* or to its answer 200.                                                    *)
C16_IdempotentRemove ==
    [][\A r \in Slots, k \in Keys :
        (PullsFrom(r, k) /\ Acts(r) /\ ~FirstHolds(scps, k, reqs[r].tale_id))
        => /\ scps' = scps
           /\ tales' = tales
           /\ \/ reqs'[r].pc \in {"pull", "add"}
              \/ reqs'[r].pc = "done" /\ reqs'[r].status = 200
      ]_vars

\* a DELETE is about to pull its tale_id from the SCP of a key that no SCP
\* document has
C16_Witness ==
    \E r \in Slots :
        /\ reqs[r].op = "delete" /\ reqs[r].pc = "pull"
        /\ ~HasSCP(reqs[r].tale[1].scp_id[reqs[r].i])

----------------------------------------------------------------------------
\* number of tale documents with tale_id id
TaleCount(coll, id) == Cardinality({i \in DOMAIN coll : coll[i].tale_id = id})

(* C17: requests run one at a time and store calls may fail (SpecSeqFail).  *)
(* In a DELETE /SCPTales/:tale_id the step that deletes the tale document   *)
(* takes one document with the tale_id out of SCPTales and writes to no     *)
(* SCP; the request reaches a turn of its pull loop only from that step or  *)
(* from an earlier turn, and only a turn of the loop changes an SCP         *)
(* document; a step in which a pull fails changes neither collection, so    *)
(* the SCPs of the turns not yet taken hold what they held.                 *)
C17_DeleteOrdering ==
    [][\A r \in Slots :
        (reqs[r].op = "delete" /\ InFlight(r) /\ Acts(r))
        => LET id == reqs[r].tale_id IN
           /\ (reqs[r].pc = "remove" /\ ~FailsNow(r))
                => /\ Len(tales') = Len(tales) - 1
                   /\ TaleCount(tales', id) = TaleCount(tales, id) - 1
                   /\ scps' = scps
           /\ reqs[r].pc # "remove" => tales' = tales
           /\ reqs[r].pc # "pull" => scps' = scps
           /\ reqs'[r].pc = "pull" => reqs[r].pc \in {"remove", "pull"}
           /\ (reqs[r].pc = "pull" /\ FailsNow(r))
                => /\ tales' = tales
                   /\ scps' = scps
                   /\ reqs'[r].status = 500
      ]_vars

\* a DELETE failed in its pull loop: no tale document has the tale_id and an
\* SCP still holds it
C17_Witness ==
    \E r \in Slots :
        /\ reqs[r].op = "delete" /\ reqs[r].pc = "done"
        /\ reqs[r].msg = "store call failed"
        /\ ~HasTale(reqs[r].tale_id)
        /\ \E j \in DOMAIN scps : Includes(scps[j].scp_tales, reqs[r].tale_id)

----------------------------------------------------------------------------
(* C18: requests run one at a time and store calls may fail (SpecSeqFail).  *)
(* In a PUT /SCPTales/:tale_id only the step that writes the body changes a *)
(* tale document and it writes to no SCP; the pull and add loops are        *)
(* reached only after it; the add loop is entered only when there is        *)
(* nothing to pull or the last pull has been made, and no pull follows an   *)
(* add; a pull only takes identifiers out of scp_tales arrays and an add    *)
(* only puts identifiers in; a step in which a pull or an add fails changes *)
(* neither collection and leaves a tale document that carries the body's    *)
(* scp_id array.                                                            *)
C18_UpdateOrdering ==
    [][\A r \in Slots :
        (reqs[r].op = "put" /\ InFlight(r) /\ Acts(r))
        => LET req == reqs[r] IN
           /\ req.pc # "set" => tales' = tales
           /\ req.pc \notin {"pull", "add"} => scps' = scps
           /\ reqs'[r].pc = "pull" => req.pc \in {"set", "pull"}
           /\ reqs'[r].pc = "add"
                => \/ req.pc = "add"
                   \/ req.pc = "set" /\ Len(reqs'[r].removedScps) = 0
                   \/ req.pc = "pull" /\ req.i = Len(req.removedScps)
           /\ req.pc \in {"pull", "add"}
                => /\ Len(scps') = Len(scps)
                   /\ \A j \in DOMAIN scps :
                        LET before == Range(scps[j].scp_tales)
                            after == Range(scps'[j].scp_tales)
                        IN IF req.pc = "pull" THEN after \subseteq before
                           ELSE before \subseteq after
           /\ (req.pc \in {"pull", "add"} /\ FailsNow(r))
                => /\ tales' = tales
                   /\ scps' = scps
                   /\ reqs'[r].status = 500
                   /\ \E i \in DOMAIN tales' :
                        /\ tales'[i].scp_id_array
                        /\ tales'[i].scp_id = req.body.scp_id
                        /\ tales'[i].tale_id =
                                IF "tale_id" \in req.body.fields
                                THEN req.body.tale_id ELSE req.tale_id
      ]_vars

\* a PUT failed after its write of the body: the tale lists a key whose SCP
\* does not hold the tale_id, or an SCP holds the tale_id of a tale that
\* does not list its key
C18_Witness ==
    \E r \in Slots :
        /\ reqs[r].op = "put" /\ reqs[r].pc = "done"
        /\ reqs[r].msg = "store call failed"
        /\ \E i \in DOMAIN tales, k \in Keys :
            /\ tales[i].tale_id = reqs[r].tale_id
            /\ HasSCP(k)
            /\ Refers(tales[i], k) # FirstHolds(scps, k, reqs[r].tale_id)

----------------------------------------------------------------------------
(* C19: requests run one at a time and scp_id arrays may repeat a key       *)
(* (SpecDup).  No turn of the validation loop of POST /SCPTales changes a   *)
(* collection; each turn adds the key it looked up to the missing list      *)
(* exactly when no SCP has that key; after the last turn the keys listed    *)
(* are exactly the keys of the array that no SCP has, the list is empty     *)
(* exactly when every key has an SCP, and the request is answered 400 with  *)
(* the list when it is not empty and goes on to the insert when it is.      *)
C19_ValidateReferences ==
    [][\A r \in Slots :
        (reqs[r].op = "post" /\ reqs[r].pc = "validate" /\ Acts(r))
        => LET req == reqs[r]
               scp == req.body.scp_id[req.i]
               reported == reqs'[r].missingScps
               absent == {k \in Range(req.body.scp_id) : ~HasSCP(k)}
           IN
           /\ tales' = tales
           /\ scps' = scps
           /\ Range(reported) =
                Range(req.missingScps) \cup (IF HasSCP(scp) THEN {} ELSE {scp})
           /\ req.i = Len(req.body.scp_id)
                => /\ Range(reported) = absent
                   /\ reported = <<>> <=> absent = {}
                   /\ reqs'[r].pc = "insert" <=> absent = {}
                   /\ (reqs'[r].pc = "done" /\ reqs'[r].status = 400)
                        <=> absent # {}
      ]_vars

\* a POST was answered 400 with a list that names one key twice, while some
\* other key has an SCP
C19_Witness ==
    \E r \in Slots :
        /\ reqs[r].op = "post" /\ reqs[r].pc = "done" /\ reqs[r].status = 400
        /\ Len(reqs[r].missingScps) = 2
        /\ reqs[r].missingScps[1] = reqs[r].missingScps[2]
        /\ \E k \in Keys : HasSCP(k)

----------------------------------------------------------------------------
(* C20: when no store call fails (SpecSeq), every POST /SCPTales that has   *)
(* been answered was answered 201 or 400, whatever the shape of its scp_id, *)
(* the empty array and a body without scp_id included.                      *)
C20_CreateStoreErrorOnlyOnFailure ==
    \A r \in Slots :
        (reqs[r].op = "post" /\ reqs[r].pc = "done")
            => reqs[r].status \in {201, 400}

----------------------------------------------------------------------------
(* C21: requests of every route run one at a time and no store call fails   *)
(* (SpecEntity).  An SCP document inserted by POST /SCPs has an empty       *)
(* scp_tales; the updateOne of a PUT /SCPs/:scp_id changes neither the      *)
(* scp_id nor the scp_tales of any SCP document; and when scp_tales is the  *)
(* exact inverse of the tales' scp_id before such a step that answers 201   *)
(* or 200, it is so after it.                                               *)
C21_EntityAddUpdateFrame ==
    [][/\ Len(scps') = Len(scps) + 1
            => /\ scps'[Len(scps')].scp_tales = <<>>
               /\ LiveInverse => LiveInverse'
       /\ \A r \in Slots :
            (reqs[r].op = "putScp" /\ reqs[r].pc = "scpset" /\ Acts(r))
            => /\ Len(scps') = Len(scps)
               /\ \A j \in DOMAIN scps :
                    /\ scps'[j].scp_id = scps[j].scp_id
                    /\ scps'[j].scp_tales = scps[j].scp_tales
               /\ (LiveInverse /\ reqs'[r].status = 200) => LiveInverse'
      ]_vars

----------------------------------------------------------------------------
(* C22: requests run one at a time (SpecSeq).  The write of the body in a   *)
(* PUT /SCPTales/:tale_id changes the tale_id of no tale document; when the *)
(* request answers 200 some tale document has the tale_id of the request;   *)
(* and a pull or add turn changes scp_tales arrays in no identifier other   *)
(* than the tale_id of the request.                                         *)
C22_StableTaleId ==
    [][\A r \in Slots :
        (reqs[r].op = "put" /\ InFlight(r) /\ Acts(r))
        => LET req == reqs[r] IN
           /\ Len(tales') = Len(tales)
           /\ \A i \in DOMAIN tales : tales'[i].tale_id = tales[i].tale_id
           /\ (reqs'[r].pc = "done" /\ reqs'[r].status = 200)
                => \E i \in DOMAIN tales' : tales'[i].tale_id = req.tale_id
           /\ \A j \in DOMAIN scps :
                \A id \in TaleIds \ {req.tale_id} :
                    Includes(scps'[j].scp_tales, id)
                        <=> Includes(scps[j].scp_tales, id)
      ]_vars

----------------------------------------------------------------------------
(* C23: the process from its start (SpecBoot).  While the server listens    *)
(* the store handle is defined; the handle, once assigned, never changes;   *)
(* no request is answered 'Database connection error'; a request is         *)
(* received only by a listening server whose handle is defined; and a       *)
(* process whose connection failed never listens and has received no        *)
(* request.                                                                 *)
C23_HandleBeforeRequests ==
    /\ [](/\ server = "listening" => dbConnection # Undefined
          /\ \A r \in Slots : reqs[r].msg # "Database connection error"
          /\ connecting = "rejected"
                => /\ server # "listening"
                   /\ nreq = 0
                   /\ \A r \in Slots : reqs[r] = Idle)
    /\ [][/\ dbConnection # Undefined => dbConnection' = dbConnection
          /\ nreq' # nreq
                => server = "listening" /\ dbConnection # Undefined
          /\ server = "exited" => server' = "exited"
         ]_vars

\* the server connected and listened, and a request has been answered
C23_Witness ==
    /\ server = "listening"
    /\ dbConnection # Undefined
    /\ \E r \in Slots : reqs[r].pc = "done" /\ reqs[r].status = 201

----------------------------------------------------------------------------
\* the status codes the handlers send
Outcomes == {200, 201, 400, 404, 500}

(* C24: requests of every route run one at a time, store calls may fail,    *)
(* and every awaited store call eventually returns or fails (SpecLive).     *)
(* The request in flight eventually has its response sent; the step that    *)
(* ends a request sends one response, with a status of the handlers; and a  *)
(* request that has been answered takes no further step: its slot changes   *)
(* only when a new request is received into it.                             *)
C24_OneOutcome ==
    /\ ~Quiet ~> Quiet
    /\ [][\A r \in Slots :
            /\ (reqs'[r].pc = "done" /\ Acts(r))
                => reqs'[r].status \in Outcomes
            /\ (reqs[r].pc = "done" /\ Acts(r)) => nreq' = nreq + 1
            /\ (InFlight(r) /\ Acts(r)) => nreq' = nreq
         ]_vars

\* a PUT /SCPTales/:tale_id that went through its loops has been answered
\* 200, and an earlier request was answered
C24_Witness ==
    /\ Quiet /\ nreq >= 2
    /\ \E r \in Slots :
        /\ reqs[r].op = "put" /\ reqs[r].pc = "done" /\ reqs[r].status = 200
        /\ \E k \in Keys : FirstHolds(scps, k, reqs[r].tale_id)

====
